---- MODULE Spec2Model ----
(***************************************************************************)
(* The particle filter node of my_localizer/scripts/pf.py.                 *)
(*                                                                         *)
(* Units.  Lengths are integers in millimetres, angles are integers in     *)
(* units of pi/6 (30 degrees), trigonometric values are fixed-point in     *)
(* thousandths.  A pose (geometry_msgs/Pose restricted to the plane) is    *)
(* the triple <<x, y, yaw>>; an attribute that has not been assigned yet   *)
(* and the empty Python list are both the empty tuple <<>>.                *)
(* A particle weight is an exact fraction [num, den] in lowest terms.      *)
(***************************************************************************)
EXTENDS Integers, Sequences, FiniteSets, TLC

VARIABLES
    initialized,            \* self.initialized
    n_particles,            \* self.n_particles
    sample_factor,          \* self.sample_factor, the fraction [num, den]
    particle_cloud,         \* self.particle_cloud, a sequence of particles
    current_odom_xy_theta,  \* self.current_odom_xy_theta, <<>> or <<x, y, theta>>
    odom_pose,              \* self.odom_pose
    robot_pose,             \* self.robot_pose
    translation,            \* self.translation, <<>> until first assigned
    rotation,               \* self.rotation (yaw of the quaternion), <<>> until first assigned
    handled,                \* history: the callback that ran last, the steps it ran, how it ended
    cycles,                 \* history: number of full update cycles started so far
    pc,                     \* position of each thread: the scan callback, the initialpose callback, the main loop
    pending,                \* per callback thread: the Frame Correction computed at line 459, not yet stored
    loaded,                 \* main loop: the value of self.translation it has evaluated for sendTransform
    sent,                   \* the last (translation, rotation) handed to sendTransform, <<>> if none
    source                  \* history: the Frame Correction each of translation, rotation was stored from

fields == <<initialized, n_particles, sample_factor, particle_cloud, current_odom_xy_theta,
            odom_pose, robot_pose, translation, rotation>>
threads == <<pc, pending, loaded, sent>>
vars == <<fields, handled, cycles, threads, source>>

----------------------------------------------------------------------------
(* Bounds of the model *)

MaxParticles == 2       \* particle counts 0..MaxParticles (Spec, SpecThreads)
MaxPopulation == 4      \* particle counts 0..MaxPopulation (SpecResample)
MaxInvFactor == 2       \* sample_factor ranges over 1/2 .. 1/MaxInvFactor
MaxRoute == 4           \* odometry poses are the points 0..MaxRoute of OdomRoute
MaxWeight == 2          \* per-particle sensor weight ranges over 1..MaxWeight
MaxCycles == 1          \* full update cycles per behaviour
GridStep == 150         \* spacing of the odometry positions, in mm
MaxBeams == 2           \* beams of a scan that the sensor model processes

(* Program constants *)

d_thresh == 200         \* 0.2 m
a_thresh == 1           \* math.pi/6
model_noise_rate == 50  \* 0.05, in thousandths
model_noise_floor == 50 \* 0.05, in thousandths
KernelPeak == 798       \* math.sqrt(2) / math.sqrt(math.pi), in thousandths

Milli == 10 * 100       \* fixed-point scale of the trigonometric tables
Pi == 6 * a_thresh      \* math.pi, in units of math.pi/6

----------------------------------------------------------------------------
(* Arithmetic *)

Abs(a) == IF a < 0 THEN -a ELSE a

RECURSIVE GCD(_, _)
GCD(a, b) == IF b = 0 THEN a ELSE GCD(b, a % b)

Rat(n, d) ==
    LET g == GCD(Abs(n), d)
    IN  [num |-> n \div g, den |-> d \div g]

RatAdd(a, b) == Rat(a.num * b.den + b.num * a.den, a.den * b.den)

RatDiv(a, b) == Rat(a.num * b.den, a.den * b.num)

RatScale(k, a) == Rat(k * a.num, a.den)

RatFloor(a) == a.num \div a.den

One == [num |-> 1, den |-> 1]
Zero == [num |-> 0, den |-> 1]

RECURSIVE ISqrtIter(_, _)
ISqrtIter(n, r) ==
    LET next == (r + n \div r) \div 2
    IN  IF next >= r THEN r ELSE ISqrtIter(n, next)

ISqrt(n) == IF n = 0 THEN 0 ELSE ISqrtIter(n, n)

Min(a, b) == IF a < b THEN a ELSE b

CosTable == <<1000, 866, 500, 0, -500, -866, -1000, -866, -500, 0, 500, 866>>

Cos(k) == CosTable[(k % 12) + 1]
Sin(k) == Cos(k - 3)

(* random.gauss(mu, sigma): every draw of the model is taken at its mean *)
Gauss(mu, sigma) == mu

----------------------------------------------------------------------------
(* Particle *)

Particle == [x |-> 0, y |-> 0, theta |-> 0, w |-> One]

normalize_weight(p, total_weight) == [p EXCEPT !.w = RatDiv(p.w, total_weight)]

RECURSIVE SumSeq(_)
SumSeq(q) == IF q = <<>> THEN Zero ELSE RatAdd(Head(q), SumSeq(Tail(q)))

Raise(s, e) == [s EXCEPT !.error = e]
Step(s, name) == [s EXCEPT !.steps = Append(@, name)]

----------------------------------------------------------------------------
(* The ParticleFilter object as a value: the methods below are functions  *)
(* from the object (and the inputs they draw) to the object they leave.    *)
(* error is the exception that is propagating ("none" if there is none):   *)
(* a method entered while an exception propagates does nothing.            *)

Self ==
    [n_particles |-> n_particles, sample_factor |-> sample_factor,
     particle_cloud |-> particle_cloud, current_odom_xy_theta |-> current_odom_xy_theta,
     odom_pose |-> odom_pose, robot_pose |-> robot_pose,
     translation |-> translation, rotation |-> rotation,
     steps |-> <<>>, error |-> "none"]

config_callback(s, config_n_particles) ==
    [s EXCEPT !.n_particles = config_n_particles]

normalize_particles(s) ==
    IF s.error # "none" THEN s ELSE
    LET total_weight == SumSeq([i \in 1..Len(s.particle_cloud) |-> s.particle_cloud[i].w])
    IN  IF s.particle_cloud = <<>> THEN s
        ELSE IF total_weight.num = 0 THEN Raise(s, "ZeroDivisionError")
        ELSE [s EXCEPT !.particle_cloud =
                [i \in 1..Len(@) |-> normalize_weight(@[i], total_weight)]]

update_robot_pose(s) ==
    IF s.error # "none" THEN s ELSE
    LET n == normalize_particles(s)
        c == n.particle_cloud
        avg_x == SumSeq([i \in 1..Len(c) |-> RatScale(c[i].x, c[i].w)])
        avg_y == SumSeq([i \in 1..Len(c) |-> RatScale(c[i].y, c[i].w)])
        avg_theta == SumSeq([i \in 1..Len(c) |-> RatScale(c[i].theta, c[i].w)])
    IN  IF n.error # "none" THEN n
        ELSE Step([n EXCEPT !.robot_pose =
                     <<RatFloor(avg_x), RatFloor(avg_y), RatFloor(avg_theta)>>], "pose")

MoveParticle(particle, distance, dtheta) ==
    LET particle_x == (Cos(particle.theta) * distance) \div Milli
        particle_y == (Sin(particle.theta) * distance) \div Milli
    IN  [particle EXCEPT
            !.x = @ + Gauss(particle_x, (particle_x * 2) \div 10),
            !.y = @ + Gauss(particle_y, (particle_y * 2) \div 10),
            !.theta = @ + Gauss(dtheta, (dtheta * 5) \div 100)]

update_particles_with_odom(s) ==
    IF s.error # "none" THEN s ELSE
    LET new_odom_xy_theta == s.odom_pose
        old == s.current_odom_xy_theta
        delta == <<new_odom_xy_theta[1] - old[1],
                   new_odom_xy_theta[2] - old[2],
                   new_odom_xy_theta[3] - old[3]>>
        distance == ISqrt(delta[1] * delta[1] + delta[2] * delta[2])
    IN  IF s.current_odom_xy_theta # <<>>
        THEN Step([s EXCEPT
                !.current_odom_xy_theta = new_odom_xy_theta,
                !.particle_cloud =
                    [i \in 1..Len(@) |-> MoveParticle(@[i], distance, delta[3])]], "motion")
        ELSE [s EXCEPT !.current_odom_xy_theta = new_odom_xy_theta]

(* math.exp(-e), e and the result in millionths: the series up to e^3,     *)
(* exact to the millionth for the exponents the sensor model produces      *)
Micro == Milli * Milli

ExpNeg(e) ==
    LET e2 == (e * e) \div Micro
        e3 == (e2 * e) \div Micro
    IN  Micro - e + (e2 \div 2) - (e3 \div 6)

(* lines 280-285: closest is what get_closest_obstacle_distance returns    *)
(* for the projected end point of the beam, <<d>> (in mm) or <<>> for nan  *)
point_weight(closest) ==
    LET distance == IF closest = <<>> THEN 5 * Milli ELSE closest[1]
        exponent == ((((distance * distance) \div 2) \div Milli)
                        * (model_noise_rate * model_noise_rate)) \div Milli
    IN  (KernelPeak * ExpNeg(exponent)) \div Micro + model_noise_floor

(* range(0, len(msg.ranges), 5) *)
BeamCount(n_ranges) == (n_ranges + 4) \div 5

(* lines 269-286: the weight of one particle, in thousandths; field[k] is  *)
(* the distance-field answer for the k-th beam processed                   *)
RECURSIVE particle_weight(_, _)
particle_weight(field, k) ==
    IF k = 0 THEN 0 ELSE particle_weight(field, k - 1) + point_weight(field[k])

(* weights[i] is the sum of the per-beam likelihoods of particle i, which  *)
(* the scan and the occupancy field determine.                             *)
update_particles_with_laser(s, weights) ==
    IF s.error # "none" THEN s ELSE
    Step([s EXCEPT !.particle_cloud =
            [i \in 1..Len(@) |-> [@[i] EXCEPT !.w = [num |-> weights[i], den |-> 1]]]], "sensor")

(* inds[k] is the index np.digitize gives the k-th uniform draw: any       *)
(* particle index (every bin has positive width).                          *)
draw_random_sample(choices, inds, n) ==
    [k \in 1..n |-> choices[inds[k]]]

EliteCount(s) == (s.n_particles * s.sample_factor.num) \div s.sample_factor.den
CopiesPerElite(s) == s.sample_factor.den \div s.sample_factor.num

Jitter(s, particle) ==
    [particle EXCEPT
        !.x = Gauss(@, 100),
        !.y = Gauss(@, 100),
        !.theta = Gauss(@, 0)]

resample_particles(s, inds) ==
    IF s.error # "none" THEN s ELSE
    LET n == normalize_particles(s)
        size == EliteCount(s)
        copies == CopiesPerElite(s)
        samples == draw_random_sample(n.particle_cloud, inds, size)
    IN  IF n.error # "none" THEN n
        ELSE IF n.particle_cloud = <<>> /\ size > 0 THEN Raise(n, "IndexError")
        ELSE Step([n EXCEPT !.particle_cloud =
                [j \in 1..(size * copies) |->
                    LET particle == samples[((j - 1) \div copies) + 1]
                    IN  IF (j - 1) % copies = 0 THEN particle ELSE Jitter(n, particle)]],
                "resample")

initialize_particle_cloud(s, xy_theta) ==
    IF s.error # "none" THEN s ELSE
    LET mean == IF xy_theta = <<>> THEN s.odom_pose ELSE xy_theta
        fresh == [i \in 1..s.n_particles |->
                    [Particle EXCEPT
                        !.x = Gauss(mean[1], 200),
                        !.y = Gauss(mean[2], 200),
                        !.theta = Gauss(mean[3], 0)]]
    IN  update_robot_pose(normalize_particles(
            Step([s EXCEPT !.particle_cloud = fresh], "initialize")))

(* np.min of an empty array raises ValueError *)
publish_particles_colored(s) ==
    IF s.error # "none" THEN s
    ELSE IF s.particle_cloud = <<>> THEN Raise(s, "ValueError")
    ELSE s

(* The map -> odom transform that makes the odometry pose at the scan's    *)
(* stamp coincide with the pose estimate: a rotation by the difference of  *)
(* the yaws and the translation that carries the rotated odometry position *)
(* onto the estimated position.                                            *)
FrameCorrection(estimate, odom) ==
    LET yaw == estimate[3] - odom[3]
    IN  [translation |->
            <<estimate[1] - ((Cos(yaw) * odom[1] - Sin(yaw) * odom[2]) \div Milli),
              estimate[2] - ((Sin(yaw) * odom[1] + Cos(yaw) * odom[2]) \div Milli)>>,
         rotation |-> <<yaw>>]

(* stamp_odom is the base -> odom transform at msg.header.stamp; tf_ok is  *)
(* FALSE when waitForTransform times out or transformPose fails, which     *)
(* raise.                                                                  *)
fix_map_to_odom_transform(s, stamp_odom, tf_ok) ==
    IF s.error # "none" THEN s
    ELSE IF ~tf_ok THEN Raise(Step(s, "lookup failed"), "tf.Exception")
    ELSE LET c == FrameCorrection(s.robot_pose, stamp_odom)
         IN  Step([s EXCEPT !.translation = c.translation, !.rotation = c.rotation],
                  "correction")

update_initial_pose(s, xy_theta, stamp_odom, tf_ok) ==
    fix_map_to_odom_transform(initialize_particle_cloud(s, xy_theta), stamp_odom, tf_ok)

MovedFarEnough_inclusive(new_odom_xy_theta, current) ==
    \/ Abs(new_odom_xy_theta[1] - current[1]) > d_thresh
    \/ Abs(new_odom_xy_theta[2] - current[2]) > d_thresh
    \/ Abs(new_odom_xy_theta[3] - current[3]) >= a_thresh

MovedFarEnough(new_odom_xy_theta, current) ==
    \/ Abs(new_odom_xy_theta[1] - current[1]) > d_thresh
    \/ Abs(new_odom_xy_theta[2] - current[2]) > d_thresh
    \/ Abs(new_odom_xy_theta[3] - current[3]) > a_thresh

UpdateCycle(s, weights, inds, tf_ok) ==
    fix_map_to_odom_transform(
        resample_particles(
            update_robot_pose(
                update_particles_with_laser(
                    update_particles_with_odom(s), weights)), inds),
        s.odom_pose, tf_ok)

(* lines 408-445: the frames are resolvable; new_odom_xy_theta is the      *)
(* base -> odom transform at the scan's stamp.                             *)
ProcessScan(s, new_odom_xy_theta, weights, inds, tf_ok) ==
    LET s1 == [s EXCEPT !.odom_pose = new_odom_xy_theta]
        s2 == IF s1.particle_cloud = <<>>
              THEN fix_map_to_odom_transform(
                       [initialize_particle_cloud(s1, <<>>) EXCEPT
                           !.current_odom_xy_theta = new_odom_xy_theta],
                       new_odom_xy_theta, tf_ok)
              ELSE IF s1.current_odom_xy_theta # <<>>
                   THEN IF MovedFarEnough(new_odom_xy_theta, s1.current_odom_xy_theta)
                        THEN UpdateCycle(s1, weights, inds, tf_ok)
                        ELSE s1
                   ELSE s1
    IN  publish_particles_colored(s2)

scan_received_one_check(s, laser_ok, odom_ok, new_odom_xy_theta, weights, inds, tf_ok) ==
    IF ~initialized THEN s
    ELSE IF ~laser_ok THEN s
    ELSE ProcessScan(s, new_odom_xy_theta, weights, inds, tf_ok)

(* laser_ok, odom_ok: the answers of the two canTransform calls *)
scan_received(s, laser_ok, odom_ok, new_odom_xy_theta, weights, inds, tf_ok) ==
    IF ~initialized THEN s
    ELSE IF ~laser_ok THEN s
    ELSE IF ~odom_ok THEN s
    ELSE ProcessScan(s, new_odom_xy_theta, weights, inds, tf_ok)

----------------------------------------------------------------------------
(* Inputs *)

ParticleCounts == 0..MaxParticles
PopulationCounts == 0..MaxPopulation
SampleFactors == {[num |-> 1, den |-> k] : k \in 2..MaxInvFactor}

(* The odometry poses the robot reports: one diagonal step, one straight   *)
(* step, then turns in place by 1, 2, 2, ... angle units.                  *)
OdomRoute(k) ==
    <<GridStep * Min(k, 2), GridStep * Min(k, 1), IF k < 3 THEN 0 ELSE 2 * k - 5>>
OdomPoses == {OdomRoute(k) : k \in 0..MaxRoute}
StraightPoses == {OdomRoute(0), OdomRoute(2)}
InitialPoses == {<<GridStep, 0, 1>>}

(* Odometry poses of a robot turning in place: yaws of -150, 0 and 150     *)
(* degrees, as euler_from_quaternion reports them                          *)
TurnPoses == {<<0, 0, -5>>, <<0, 0, 0>>, <<0, 0, 5>>}

(* len(msg.ranges) for 0, 1, ..., MaxBeams processed beams *)
ScanLengths == {0} \cup {5 * (b - 1) + 1 : b \in 1..MaxBeams}
(* answers of the distance field: nan, on an obstacle, 1 m from the nearest *)
FieldAnswers == {<<>>, <<0>>, <<Milli>>}

(* The particles of the population coincide (every noise draw is taken at  *)
(* its mean), so each beam's end point and the field's answer for it are   *)
(* the same for every particle.                                            *)
LaserWeights(cloud, field) ==
    [i \in 1..Len(cloud) |-> particle_weight(field, Len(field))]

WeightChoices(cloud) == [1..Len(cloud) -> 1..MaxWeight]
IndexChoices(s) ==
    IF s.particle_cloud = <<>> THEN {<<>>}
    ELSE [1..EliteCount(s) -> 1..Len(s.particle_cloud)]

NoWeights == <<>>
NoInds == <<>>

----------------------------------------------------------------------------
(* State after ParticleFilter.__init__: n_particles is the ~n_particles    *)
(* parameter rounded down to a multiple of 1/sample_factor.                *)

InitWith(counts) ==
    /\ initialized = TRUE
    /\ sample_factor \in SampleFactors
    /\ \E param \in counts :
          n_particles = (((sample_factor.num * param) \div sample_factor.den)
                            * sample_factor.den) \div sample_factor.num
    /\ particle_cloud = <<>>
    /\ current_odom_xy_theta = <<>>
    /\ odom_pose = <<>>
    /\ robot_pose = <<>>
    /\ translation = <<>>
    /\ rotation = <<>>
    /\ handled = [handler |-> "none", resolvable |-> TRUE, stamp_odom |-> <<>>,
                  steps |-> <<>>, error |-> "none"]
    /\ cycles = 0
    /\ pc = [scan |-> "idle", pose |-> "idle", main |-> "check"]
    /\ pending = [scan |-> <<>>, pose |-> <<>>]
    /\ loaded = <<>>
    /\ sent = <<>>
    /\ source = [translation |-> <<>>, rotation |-> <<>>]

StoreFields(s) ==
    /\ n_particles' = s.n_particles
    /\ particle_cloud' = s.particle_cloud
    /\ current_odom_xy_theta' = s.current_odom_xy_theta
    /\ odom_pose' = s.odom_pose
    /\ robot_pose' = s.robot_pose
    /\ UNCHANGED <<initialized, sample_factor>>

(* A callback run from entry to exit with no other thread running.         *)
(* stamp_odom is the odometry pose at the stamp of the message handled     *)
(* (<<>> when the message has none or it cannot be looked up).             *)
Callback(s, handler, resolvable, stamp_odom) ==
    /\ StoreFields(s)
    /\ translation' = s.translation
    /\ rotation' = s.rotation
    /\ handled' = [handler |-> handler, resolvable |-> resolvable,
                   stamp_odom |-> stamp_odom, steps |-> s.steps, error |-> s.error]
    /\ UNCHANGED <<threads, source>>

ConfigCallback(counts) ==
    \E n \in counts :
        /\ Callback(config_callback(Self, n), "config", TRUE, <<>>)
        /\ UNCHANGED cycles

UpdateInitialPose(poses) ==
    \E xy_theta \in InitialPoses, stamp_odom \in poses, tf_ok \in BOOLEAN :
        /\ Callback(update_initial_pose(Self, xy_theta, stamp_odom, tf_ok),
                    "initialpose", TRUE, stamp_odom)
        /\ UNCHANGED cycles

(* scan_received, by the branch it takes *)
ScanUnresolvable ==
    \E laser_ok, odom_ok \in BOOLEAN :
        /\ ~(laser_ok /\ odom_ok)
        /\ Callback(scan_received(Self, laser_ok, odom_ok, OdomRoute(0),
                                  [i \in 1..Len(particle_cloud) |-> 1],
                                  [k \in 1..EliteCount(Self) |-> 1], TRUE),
                    "scan", FALSE, <<>>)
        /\ UNCHANGED cycles

ScanFirst(poses) ==
    \E odom \in poses, tf_ok \in BOOLEAN :
        /\ particle_cloud = <<>>
        /\ Callback(scan_received(Self, TRUE, TRUE, odom, NoWeights, NoInds, tf_ok),
                    "scan", TRUE, odom)
        /\ UNCHANGED cycles

ScanNoUpdate(poses) ==
    \E odom \in poses :
        /\ particle_cloud # <<>>
        /\ IF current_odom_xy_theta = <<>> THEN TRUE
           ELSE ~MovedFarEnough(odom, current_odom_xy_theta)
        /\ Callback(scan_received(Self, TRUE, TRUE, odom, NoWeights, NoInds, TRUE),
                    "scan", TRUE, odom)
        /\ UNCHANGED cycles

ScanUpdate(poses) ==
    \E odom \in poses, tf_ok \in BOOLEAN :
        /\ particle_cloud # <<>>
        /\ current_odom_xy_theta # <<>>
        /\ MovedFarEnough(odom, current_odom_xy_theta)
        /\ cycles < MaxCycles
        /\ \E weights \in WeightChoices(particle_cloud), inds \in IndexChoices(Self) :
              Callback(scan_received(Self, TRUE, TRUE, odom, weights, inds, tf_ok),
                       "scan", TRUE, odom)
        /\ cycles' = cycles + 1

(* scan_received running the update cycle, the weights computed from the   *)
(* scan's beams                                                            *)
ScanUpdateSensed(poses) ==
    \E odom \in poses, tf_ok \in BOOLEAN, n_ranges \in ScanLengths :
        /\ particle_cloud # <<>>
        /\ current_odom_xy_theta # <<>>
        /\ MovedFarEnough(odom, current_odom_xy_theta)
        /\ cycles < MaxCycles
        /\ \E field \in [1..BeamCount(n_ranges) -> FieldAnswers], inds \in IndexChoices(Self) :
              Callback(scan_received(Self, TRUE, TRUE, odom,
                                     LaserWeights(particle_cloud, field), inds, tf_ok),
                       "scan", TRUE, odom)
        /\ cycles' = cycles + 1

(* The callbacks, one at a time, over the route *)
Init == InitWith(ParticleCounts)

Next ==
    \/ ConfigCallback(ParticleCounts)
    \/ UpdateInitialPose(OdomPoses)
    \/ ScanUnresolvable
    \/ ScanFirst(OdomPoses)
    \/ ScanNoUpdate(OdomPoses)
    \/ ScanUpdate(OdomPoses)

Spec == Init /\ [][Next]_vars

(* The callbacks, one at a time, with larger populations on a straight run *)
InitResample == InitWith(PopulationCounts)

NextResample ==
    \/ ConfigCallback(PopulationCounts)
    \/ UpdateInitialPose(StraightPoses)
    \/ ScanUnresolvable
    \/ ScanFirst(StraightPoses)
    \/ ScanNoUpdate(StraightPoses)
    \/ ScanUpdate(StraightPoses)

SpecResample == InitResample /\ [][NextResample]_vars

(* The callbacks, one at a time, for a robot turning in place, the sensor  *)
(* model applied to the beams of each scan                                 *)
InitScan == InitWith(ParticleCounts)

NextScan ==
    \/ ConfigCallback(ParticleCounts)
    \/ UpdateInitialPose(TurnPoses)
    \/ ScanUnresolvable
    \/ ScanFirst(TurnPoses)
    \/ ScanNoUpdate(TurnPoses)
    \/ ScanUpdateSensed(TurnPoses)

SpecScan == InitScan /\ [][NextScan]_vars

----------------------------------------------------------------------------
(* The threads of the node.  rospy runs the callbacks of each subscription *)
(* in a thread of their own and the main thread runs the broadcast loop;   *)
(* no lock is taken anywhere.  A callback is split at its method calls and *)
(* the assignment of line 459 at its two attribute stores; the main loop   *)
(* is split at the two attribute loads of lines 467-468.  The particle     *)
(* count stays as constructed.                                             *)

Goto(t, label) == pc' = [pc EXCEPT ![t] = label]

ThreadStep(s) ==
    /\ StoreFields(s)
    /\ UNCHANGED <<handled, loaded, sent>>

(* lines 394-436: the checks, the odometry lookup and the choice of branch *)
ScanEnter(poses) ==
    \E laser_ok, odom_ok \in BOOLEAN, odom \in poses :
        /\ pc.scan = "idle"
        /\ IF ~initialized \/ ~laser_ok \/ ~odom_ok
           THEN UNCHANGED <<fields, pc, cycles>>
           ELSE /\ StoreFields([Self EXCEPT !.odom_pose = odom])
                /\ UNCHANGED <<translation, rotation>>
                /\ IF particle_cloud = <<>>
                   THEN Goto("scan", "initialize") /\ UNCHANGED cycles
                   ELSE IF current_odom_xy_theta = <<>>
                   THEN Goto("scan", "publish") /\ UNCHANGED cycles
                   ELSE IF ~MovedFarEnough(odom, current_odom_xy_theta)
                   THEN Goto("scan", "publish") /\ UNCHANGED cycles
                   ELSE cycles < MaxCycles /\ cycles' = cycles + 1 /\ Goto("scan", "motion")
        /\ UNCHANGED <<handled, pending, loaded, sent, source>>

(* lines 423-425 *)
ScanInitialize ==
    /\ pc.scan = "initialize"
    /\ ThreadStep([initialize_particle_cloud(Self, <<>>) EXCEPT
                      !.current_odom_xy_theta = odom_pose])
    /\ Goto("scan", "fix")
    /\ UNCHANGED <<translation, rotation, pending, source, cycles>>

(* a step of the update cycle, lines 438-441; an exception ends the callback *)
CycleStep(from, s, to) ==
    /\ pc.scan = from
    /\ ThreadStep(s)
    /\ Goto("scan", IF s.error = "none" THEN to ELSE "idle")
    /\ UNCHANGED <<translation, rotation, pending, source, cycles>>

ScanMotion == CycleStep("motion", update_particles_with_odom(Self), "sensor")

ScanSensor ==
    \E weights \in WeightChoices(particle_cloud) :
        CycleStep("sensor", update_particles_with_laser(Self, weights), "pose")

ScanPose == CycleStep("pose", update_robot_pose(Self), "resample")

ScanResample ==
    \E inds \in IndexChoices(Self) :
        CycleStep("resample", resample_particles(Self, inds), "fix")

(* line 445 *)
ScanPublish ==
    /\ pc.scan = "publish"
    /\ Goto("scan", "idle")
    /\ UNCHANGED <<fields, handled, cycles, pending, loaded, sent, source>>

(* line 322 *)
PoseInitialize ==
    \E xy_theta \in InitialPoses :
        /\ pc.pose = "idle"
        /\ ThreadStep(initialize_particle_cloud(Self, xy_theta))
        /\ Goto("pose", "fix")
        /\ UNCHANGED <<translation, rotation, pending, source, cycles>>

(* lines 454-459, up to the value of the right-hand side of line 459 *)
FixCompute(t, poses) ==
    \E stamp_odom \in poses, tf_ok \in BOOLEAN :
        /\ pc[t] = "fix"
        /\ t = "scan" => stamp_odom = odom_pose
        /\ IF tf_ok
           THEN /\ pending' = [pending EXCEPT ![t] = FrameCorrection(robot_pose, stamp_odom)]
                /\ Goto(t, "store translation")
           ELSE /\ UNCHANGED pending
                /\ Goto(t, "idle")
        /\ UNCHANGED <<fields, handled, cycles, loaded, sent, source>>

(* line 459: STORE_ATTR translation, then STORE_ATTR rotation *)
StoreTranslation(t) ==
    /\ pc[t] = "store translation"
    /\ translation' = pending[t].translation
    /\ source' = [source EXCEPT !.translation = pending[t]]
    /\ Goto(t, "store rotation")
    /\ UNCHANGED <<initialized, n_particles, sample_factor, particle_cloud,
                   current_odom_xy_theta, odom_pose, robot_pose, rotation,
                   handled, cycles, pending, loaded, sent>>

StoreRotation(t) ==
    /\ pc[t] = "store rotation"
    /\ rotation' = pending[t].rotation
    /\ source' = [source EXCEPT !.rotation = pending[t]]
    /\ pending' = [pending EXCEPT ![t] = <<>>]
    /\ Goto(t, IF t = "scan" THEN "publish" ELSE "idle")
    /\ UNCHANGED <<initialized, n_particles, sample_factor, particle_cloud,
                   current_odom_xy_theta, odom_pose, robot_pose, translation,
                   handled, cycles, loaded, sent>>

(* broadcast_last_transform, line 465: nothing is sent until both exist *)
BroadcastCheck ==
    /\ pc.main = "check"
    /\ translation # <<>> /\ rotation # <<>>
    /\ Goto("main", "load translation")
    /\ UNCHANGED <<fields, handled, cycles, pending, loaded, sent, source>>

(* line 467: the first argument is evaluated *)
BroadcastLoadTranslation ==
    /\ pc.main = "load translation"
    /\ loaded' = [translation |-> translation, from |-> source.translation]
    /\ Goto("main", "send")
    /\ UNCHANGED <<fields, handled, cycles, pending, sent, source>>

(* lines 468-471: the second argument is evaluated and the transform sent *)
BroadcastSend ==
    /\ pc.main = "send"
    /\ sent' = [translation |-> loaded.translation, rotation |-> rotation,
                translation_from |-> loaded.from, rotation_from |-> source.rotation]
    /\ loaded' = <<>>
    /\ Goto("main", "check")
    /\ UNCHANGED <<fields, handled, cycles, pending, source>>

InitThreads == InitWith(ParticleCounts)

NextThreads ==
    \/ ScanEnter(StraightPoses)
    \/ ScanInitialize
    \/ ScanMotion
    \/ ScanSensor
    \/ ScanPose
    \/ ScanResample
    \/ ScanPublish
    \/ PoseInitialize
    \/ FixCompute("scan", StraightPoses)
    \/ FixCompute("pose", StraightPoses)
    \/ StoreTranslation("scan")
    \/ StoreTranslation("pose")
    \/ StoreRotation("scan")
    \/ StoreRotation("pose")
    \/ BroadcastCheck
    \/ BroadcastLoadTranslation
    \/ BroadcastSend

SpecThreads == InitThreads /\ [][NextThreads]_vars

----------------------------------------------------------------------------
(* Properties of the callbacks *)

Ran(name) == \E k \in 1..Len(handled.steps) : handled.steps[k] = name
Resampled == handled.handler = "scan" /\ Ran("resample")
Tracking == particle_cloud # <<>>

(* The odometry delta as the specification measures it: linear magnitude   *)
(* sqrt(dx^2 + dy^2) against d_thresh, angular magnitude against a_thresh  *)
DeltaExceeds(new, base) ==
    \/ (new[1] - base[1]) * (new[1] - base[1]) + (new[2] - base[2]) * (new[2] - base[2])
          > d_thresh * d_thresh
    \/ Abs(new[3] - base[3]) > a_thresh

FullCycle == <<"motion", "sensor", "pose", "resample", "correction">>

(* C1: whenever resample_particles has drawn a non-empty elite sample, the *)
(* population it leaves has exactly n_particles particles.                 *)
C1_ResampleKeepsCount ==
    (Resampled /\ EliteCount(Self) > 0) => Len(particle_cloud) = n_particles

(* C2: in TRACKING, a scan with resolvable frames whose odometry delta     *)
(* since the baseline exceeds d_thresh in linear magnitude or a_thresh in  *)
(* angular magnitude runs the full cycle and resets the baseline to the    *)
(* current odometry pose.                                                  *)
C2_UpdateOnMagnitude ==
    [][(/\ handled'.handler = "scan" /\ handled'.resolvable
        /\ particle_cloud # <<>> /\ current_odom_xy_theta # <<>>
        /\ handled'.error # "tf.Exception"
        /\ DeltaExceeds(odom_pose', current_odom_xy_theta))
       => (handled'.steps = FullCycle /\ current_odom_xy_theta' = odom_pose')]_vars

(* C3: after a scan with resolvable frames has been handled, the odometry  *)
(* baseline is set.                                                        *)
C3_BaselineSetAfterScan ==
    (handled.handler = "scan" /\ handled.resolvable) => current_odom_xy_theta # <<>>

C7_UnresolvableNoChange ==
    [][(handled'.handler = "scan" /\ ~handled'.resolvable)
       => (handled'.steps = <<>> /\ handled'.error = "none" /\ UNCHANGED fields)]_vars

C7_Witness ==
    /\ handled.handler = "scan" /\ ~handled.resolvable
    /\ particle_cloud # <<>> /\ current_odom_xy_theta # <<>>
    /\ translation # <<>>

(* C8: with a particle count that is not positive or whose elite count     *)
(* floor(N * sample_factor) is zero the filter never tracks, and           *)
(* resample_particles never leaves the population empty.                   *)
C8_InvalidConfigRefused ==
    /\ (n_particles <= 0 \/ EliteCount(Self) = 0) => ~Tracking
    /\ Resampled => particle_cloud # <<>>

(* C9: when the transform lookup of fix_map_to_odom_transform fails during *)
(* a scan, the stored Frame Correction is retained and the handler ends    *)
(* without an error.                                                       *)
C9_LookupFailureSkipped ==
    [][(handled'.handler = "scan" /\ handled'.steps # <<>>
        /\ handled'.steps[Len(handled'.steps)] = "lookup failed")
       => (/\ translation' = translation /\ rotation' = rotation
           /\ handled'.error = "none")]_vars

(* C10: after resample_particles every particle of the new population      *)
(* carries the same weight.                                                *)
C10_UniformAfterResample ==
    Resampled =>
        \A i, j \in 1..Len(particle_cloud) : particle_cloud[i].w = particle_cloud[j].w

(* C11: every particle's heading lies in (-pi, pi] and every particle's    *)
(* weight is >= 0, after any sequence of initializations, motion updates   *)
(* and resamplings.                                                        *)
C11_ParticleInRange ==
    \A i \in 1..Len(particle_cloud) :
        /\ -Pi < particle_cloud[i].theta /\ particle_cloud[i].theta <= Pi
        /\ particle_cloud[i].w.num >= 0

(* C12: after update_particles_with_laser has processed a scan every       *)
(* particle's weight is strictly positive and the normalization that       *)
(* follows does not divide by a zero total.                                *)
C12_WeightsPositive ==
    (handled.handler = "scan" /\ Ran("sensor")) =>
        /\ \A i \in 1..Len(particle_cloud) : particle_cloud[i].w.num > 0
        /\ handled.error # "ZeroDivisionError"

(* The robot's displacement from base to new resolved along and across    *)
(* its own heading, then applied along and across the particle's heading   *)
AdvancedBy(particle, base, new) ==
    LET dx == new[1] - base[1]
        dy == new[2] - base[2]
        forward == (dx * Cos(base[3]) + dy * Sin(base[3])) \div Milli
        lateral == (dy * Cos(base[3]) - dx * Sin(base[3])) \div Milli
    IN  [particle EXCEPT
            !.x = @ + (forward * Cos(particle.theta) - lateral * Sin(particle.theta)) \div Milli,
            !.y = @ + (forward * Sin(particle.theta) + lateral * Cos(particle.theta)) \div Milli,
            !.theta = @ + (new[3] - base[3])]

(* C13: with every noise draw at its mean, update_particles_with_odom      *)
(* keeps the population size and advances each particle by the robot's     *)
(* signed forward/lateral displacement rotated into the particle's own     *)
(* heading, and its heading by dtheta.                                     *)
C13_MotionInParticleFrame ==
    [][(pc.scan = "motion" /\ pc'.scan = "sensor")
       => (/\ Len(particle_cloud') = Len(particle_cloud)
           /\ \A i \in 1..Len(particle_cloud) :
                 particle_cloud'[i] =
                     AdvancedBy(particle_cloud[i], current_odom_xy_theta, odom_pose))]_vars

(* C14: after an initial-pose re-initialization in TRACKING, a scan taken  *)
(* at the odometry pose of the re-initialization (the robot has not moved  *)
(* since) finds a zero odometry delta: it runs no step and applies no      *)
(* motion to the re-initialized population.                                *)
C14_NoMotionBeforeReinit ==
    [][(/\ handled.handler = "initialpose"
        /\ particle_cloud # <<>> /\ current_odom_xy_theta # <<>>
        /\ handled'.handler = "scan" /\ handled'.resolvable
        /\ handled'.stamp_odom = handled.stamp_odom)
       => (handled'.steps = <<>> /\ particle_cloud' = particle_cloud)]_vars

(* C4: every transform the broadcast loop sends carries a translation and  *)
(* a rotation of one and the same computed Frame Correction.               *)
C4_SentCorrectionWhole ==
    sent # <<>> =>
        [translation |-> sent.translation, rotation |-> sent.rotation]
            \in {sent.translation_from, sent.rotation_from}

(* C5: while scan_received is inside an update cycle no other thread       *)
(* changes the population, the pose estimate or the baseline.              *)
C5_CycleNotInterleaved ==
    [][(pc.scan \in {"motion", "sensor", "pose", "resample"} /\ pc'.scan = pc.scan)
       => UNCHANGED <<particle_cloud, robot_pose, current_odom_xy_theta>>]_vars

====
